---- MODULE Spec2Model ----
(***************************************************************************)
(* Model of packages/background-http/index.android.ts: the upload Task     *)
(* registry (Task.cache), the Task factories (Task.create,                 *)
(* Task.createMultiPart), the Task methods an application can call, and    *)
(* the four callback handlers that the RequestObserverDelegate dispatches  *)
(* to.                                                                     *)
(*                                                                         *)
(* Every action is one whole call (an API call of the application or one   *)
(* delegate callback of the upload service): JavaScript runs them one at   *)
(* a time.  A listener that the application attached to a Task runs inside *)
(* the notify() that reaches it, and may itself call into the module; what *)
(* it does is part of the same action.  What the last call did, in order   *)
(* (property-change notifications, semantic events, startUpload,           *)
(* stopUpload, the write to Task.cache), is kept in emitted, so that       *)
(* orderings inside a call are state.                                      *)
(***************************************************************************)
EXTENDS Integers, Sequences, FiniteSets, TLC

VARIABLES
    taskCount,        \* Task.taskCount (line 165)
    cache,            \* Task.cache (line 166): task id -> Task fields
    ProgressReceiver, \* line 10: TRUE once assigned (line 113)
    receiver,         \* line 117: TRUE once assigned (line 122)
    hasNamespace,     \* line 126
    observers,        \* number of GlobalRequestObserver objects built (line 97)
    registrations,    \* number of receiver.register(context) calls (line 123)
    submitted,        \* requests handed to the upload service by startUpload
    stopRequests,     \* upload ids the upload service was asked to stop (stopUpload), in order
    constructible,    \* runtime: whether new can be applied to the observer object (line 122)
    phase,            \* upload service: where the upload of each Task id is in its callback protocol
    lastUploaded,     \* upload service: the last uploadedBytes it reported for each Task id
    budget,           \* number of calls that can be made in this run (a bound of the model)
    written,          \* the fields the last call wrote, in order (this._x = value)
    calls,            \* number of calls made so far (application calls, a listener's too, and callbacks)
    lastCall,         \* the last call made: operation, inputs, outcome
    emitted,          \* what the last call did, in order: notify / startUpload / cache write
    terminalEvents,   \* per task id: cancelled / error / complete events emitted so far
    lastProgress      \* per task id: currentBytes of the last progress event emitted

vars == <<taskCount, cache, ProgressReceiver, receiver, hasNamespace, observers,
          registrations, submitted, stopRequests, constructible, phase, lastUploaded,
          budget, written, calls, lastCall, emitted, terminalEvents, lastProgress>>

(***************************************************************************)
(* Bounds                                                                  *)
(***************************************************************************)
MaxCalls == 3       \* calls made in one run: application calls (a listener's too), callbacks
MaxBytes == 2       \* largest byte count the upload service reports
MaxParts == 2       \* longest multipart params list
MaxInterleaved == 5 \* calls made in one run that interleaves the callbacks of several Tasks

SessionIds == {"s1", "s2"}
Descriptions == {"d1"}

(***************************************************************************)
(* JavaScript numbers: finite integers, NaN, +Infinity, -Infinity; and     *)
(* undefined for a field that was never written.                           *)
(***************************************************************************)
Num(n) == [k |-> "fin", v |-> n]
NaN == [k |-> "nan", v |-> 0]
PosInf == [k |-> "inf", v |-> 1]
NegInf == [k |-> "inf", v |-> -1]
Undefined == [k |-> "undefined", v |-> 0]

\* !x
Falsy(x) == x.k = "nan" \/ x.k = "undefined" \/ (x.k = "fin" /\ x.v = 0)
\* isFinite(x)
IsFinite(x) == x.k = "fin"
\* x <= 0
LeqZero(x) == (x.k = "fin" /\ x.v <= 0) \/ x = NegInf
\* a <= b on numbers (false when either is NaN)
Leq(a, b) ==
    CASE a.k = "nan" \/ b.k = "nan" -> FALSE
      [] a.k = "undefined" \/ b.k = "undefined" -> FALSE
      [] a.k = "fin" /\ b.k = "fin" -> a.v <= b.v
      [] a.k = "inf" /\ b.k = "inf" -> a.v <= b.v
      [] a.k = "inf" -> a.v < 0
      [] OTHER -> b.v > 0

(***************************************************************************)
(* Inputs                                                                  *)
(***************************************************************************)
\* uploadInfo.getUploadedBytes() / getTotalBytes() in a progress callback
UploadedValues == {Num(n) : n \in 0..MaxBytes}
ProgressTotals == {Num(0), Num(MaxBytes)}
\* uploadInfo.getTotalBytes() in the success callback
SuccessTotals == {Num(-1), Num(0), Num(MaxBytes), NaN, PosInf, NegInf}

\* A ServerResponse: getBodyString() and, when present, getCode().
Responses ==
    { [hasGetCode |-> TRUE, code |-> 200, body |-> "OK"],
      [hasGetCode |-> FALSE, code |-> 0, body |-> "OK"] }
ErrorResponse == [hasGetCode |-> TRUE, code |-> 500, body |-> "ERR"]

\* The Throwable given to onError
Errors ==
    { [type |-> "UserCancelledUploadException"],
      [type |-> "UploadError", serverResponse |-> ErrorResponse],
      [type |-> "Throwable"] }

\* new java.lang.Exception(error) (line 45): a new exception with the
\* Throwable as its cause; it is not the Throwable, and has no server response
JavaException(cause) == [type |-> "java.lang.Exception", cause |-> cause]

\* The options argument of uploadFile / multipartUpload: an object (of which
\* the description is what the Task keeps), or nothing at all.
NoOptions == [given |-> FALSE, description |-> "undefined"]
Options == {[given |-> TRUE, description |-> d] : d \in Descriptions} \cup {NoOptions}

\* One element of the params array of multipartUpload, by what lines 277-287
\* look at: name is "undefined", "null" or "string"; value is "undefined" or
\* "string"; filename is "undefined", "string" or "number".
FieldPart == [name |-> "string", value |-> "string", filename |-> "undefined"]
FilePart == [name |-> "string", value |-> "undefined", filename |-> "string"]
NoNamePart == [name |-> "undefined", value |-> "string", filename |-> "undefined"]
NoValuePart == [name |-> "string", value |-> "undefined", filename |-> "undefined"]
NullNamePart == [name |-> "null", value |-> "string", filename |-> "undefined"]
NumberFilePart == [name |-> "string", value |-> "undefined", filename |-> "number"]
Parts == {FieldPart, FilePart, NoNamePart, NoValuePart}
RECURSIVE SeqsUpTo(_, _)
SeqsUpTo(S, n) ==
    IF n = 0 THEN {<<>>}
    ELSE LET shorter == SeqsUpTo(S, n - 1)
         IN  shorter \cup {Append(q, x) : q \in {r \in shorter : Len(r) = n - 1}, x \in S}
\* Lists of up to MaxParts parts (plain fields, file fields, parts without a
\* name, parts without a value), and a list with a part of each other kind
ParamLists ==
    SeqsUpTo(Parts, MaxParts) \cup { <<NullNamePart>>, <<NumberFilePart>> }

\* What a listener that the application attached to a Task does when the
\* notification it listens for reaches it, beyond reading the Task: call
\* task.cancel(), or start another upload.  A Task has a set of them, one
\* at most for a notification.
CancelOnUpload == [kind |-> "prop", name |-> "upload", do |-> "cancel"]
UploadOnProgress == [kind |-> "event", name |-> "progress", do |-> "uploadFile",
                     session |-> "s2", options |-> [given |-> TRUE, description |-> "d1"]]
NoListener == {}
Listeners == SUBSET {CancelOnUpload, UploadOnProgress}

\* What an application writes through a Task's public setters
AppWrites ==
    { [name |-> "status", value |-> "complete"],
      [name |-> "description", value |-> "other"],
      [name |-> "upload", value |-> Num(MaxBytes)],
      [name |-> "totalUpload", value |-> Num(0)] }

(***************************************************************************)
(* Task ids and upload ids                                                 *)
(***************************************************************************)
\* session.id + "{" + ++Task.taskCount + "}"  (n is the incremented count)
\* Faulty variant: the counter is left out of the id
TaskIdWithoutCount(sid, n) == sid \o "{" \o "}"
TaskId(sid, n) == sid \o "{" \o ToString(n) \o "}"

\* The upload id of a request on which setUploadID is never called: the
\* upload service gives each request a fresh random id of its own.
EngineIds == {"uuid-" \o ToString(i) : i \in 1..MaxCalls}
\* The ids of the Tasks that MaxCalls calls can create, and all those a run
\* can create
TaskIds == {TaskId(sid, n) : sid \in SessionIds, n \in 1..MaxCalls}
AllTaskIds == {TaskId(sid, n) : sid \in SessionIds, n \in 1..MaxInterleaved}
UploadIds == TaskIds \cup EngineIds

\* The upload service's own id for its n-th request (any fresh id: they are
\* random, and nothing in the program reads them).
EngineId(n) == "uuid-" \o ToString(n)

(***************************************************************************)
(* The module's state as one value, with the log of the call in progress  *)
(***************************************************************************)
World ==
    [taskCount |-> taskCount, cache |-> cache, ProgressReceiver |-> ProgressReceiver,
     receiver |-> receiver, hasNamespace |-> hasNamespace, observers |-> observers,
     registrations |-> registrations, submitted |-> submitted,
     stopRequests |-> stopRequests, out |-> <<>>, writes |-> <<>>, nested |-> 0]

(***************************************************************************)
(* Task: fields, setters and the notifications they emit                   *)
(***************************************************************************)
\* new Task(): no field written yet
NewTask ==
    [id |-> "undefined", session |-> "undefined", description |-> "undefined",
     upload |-> Undefined, totalUpload |-> Undefined, status |-> "undefined"]

\* A method running on a Task: the Task as written so far (t), the module's
\* state and the log (w), and the listener attached to the Task (l).
Start(task, w, listener) == [t |-> task, w |-> w, l |-> listener]

\* Every log entry made by notify() carries the task's fields as a listener
\* reading them sees them.
Snapshot(t) == [upload |-> t.upload, totalUpload |-> t.totalUpload, status |-> t.status,
                description |-> t.description]

\* Observable.notify (of @nativescript/core): hands the data to the Task's
\* listeners, which run before notify returns.
RECURSIVE ObservableNotify(_, _)

\* ObservableBase.notifyPropertyChanged
notifyPropertyChanged(st, propertyName, value) ==
    ObservableNotify(st, [kind |-> "prop", id |-> st.t.id, name |-> propertyName,
                          value |-> value, seen |-> Snapshot(st.t)])

\* task.notify({eventName, object: task, ...payload})
notify(st, eventName, payload) ==
    ObservableNotify(st, [kind |-> "event", id |-> st.t.id, name |-> eventName,
                          data |-> payload, seen |-> Snapshot(st.t)])

\* this._x = value: the field is written (and the write kept, with the number
\* of log entries made before it)
Write(st, field, value) ==
    [st EXCEPT !.t[field] = value,
               !.w.writes = Append(@, [id |-> st.t.id, name |-> field, value |-> value,
                                       at |-> Len(st.w.out)])]

setTotalUpload(st, value) ==
    notifyPropertyChanged(Write(st, "totalUpload", value), "totalUpload", value)

setUpload(st, value) ==
    notifyPropertyChanged(Write(st, "upload", value), "upload", value)

setStatus(st, value) ==
    notifyPropertyChanged(Write(st, "status", value), "status", value)

setDescription(st, value) ==
    notifyPropertyChanged(Write(st, "description", value), "description", value)

\* Faulty variant: cancel also marks the task cancelled and announces it
cancelTaskSetsStatus(st) ==
    LET s1 == notify(setStatus(st, "cancelled"), "cancelled", [none |-> TRUE])
    IN  [s1 EXCEPT !.w.stopRequests = Append(@, st.t.id),
                   !.w.out = Append(@, [kind |-> "stopUpload", id |-> st.t.id])]

\* Task.cancel's body: UploadService.stopUpload(this._id), nothing else
cancelTask(st) ==
    [st EXCEPT !.w.stopRequests = Append(@, st.t.id),
               !.w.out = Append(@, [kind |-> "stopUpload", id |-> st.t.id])]

\* Faulty variant: the total starts at 0
initTaskZeroTotal(taskId, sid, options, w) ==
    LET s0 == Start([NewTask EXCEPT !.session = sid, !.id = taskId], w, NoListener)
        s1 == setDescription(s0, options.description)
        s2 == setUpload(s1, Num(0))
        s3 == setTotalUpload(s2, Num(0))
    IN  setStatus(s3, "pending")

\* Task.initTask.  Nothing outside holds the new Task yet, so it has no
\* listener.
initTask(taskId, sid, options, w) ==
    LET s0 == Start([NewTask EXCEPT !.session = sid, !.id = taskId], w, NoListener)
        s1 == setDescription(s0, options.description)
        s2 == setUpload(s1, Num(0))
        s3 == setTotalUpload(s2, Num(1))
    IN  setStatus(s3, "pending")

(***************************************************************************)
(* Requests                                                                *)
(***************************************************************************)
\* getBinaryRequest: options.url (line 264) throws when there are no options;
\* taskId is not used; the request keeps the upload id the upload service
\* generated for it (uploadId).
getBinaryRequest(taskId, options, uploadId) ==
    IF ~options.given
    THEN [threw |-> TRUE, error |-> "TypeError"]
    ELSE [threw |-> FALSE, error |-> "none", request |-> [uploadId |-> uploadId]]

\* One turn of the loop of lines 275-292 on part p: "Error" for the
\* validation error of line 278, "TypeError" when toString (line 282) or
\* startsWith (line 287) is called on a value that does not have it.
PartOutcome(p) ==
    IF p.name = "undefined" THEN "Error"
    ELSE IF p.filename = "undefined"
         THEN IF p.name = "null" \/ p.value = "undefined" THEN "TypeError" ELSE "ok"
         ELSE IF p.filename = "string" THEN "ok" ELSE "TypeError"

\* The loop from part i on: the outcome of the first part that throws
RECURSIVE AddParts(_, _)
AddParts(params, i) ==
    IF i > Len(params) THEN "ok"
    ELSE IF PartOutcome(params[i]) # "ok" THEN PartOutcome(params[i])
    ELSE AddParts(params, i + 1)

\* getMultipartRequest: options.url (line 273) throws when there are no
\* options; then the loop over the parts; taskId is not used here either.
getMultipartRequest(taskId, options, params, uploadId) ==
    IF ~options.given
    THEN [threw |-> TRUE, error |-> "TypeError"]
    ELSE IF AddParts(params, 1) # "ok"
         THEN [threw |-> TRUE, error |-> AddParts(params, 1)]
         ELSE [threw |-> FALSE, error |-> "none", request |-> [uploadId |-> uploadId]]

(***************************************************************************)
(* Factories                                                               *)
(***************************************************************************)
\* ensureUploadServiceNamespace(); ensureReceiver() with
\* initializeProgressReceiver() inside it.  The observer is built at most once
\* (guard on ProgressReceiver).  Line 122 applies new to that observer object:
\* where the runtime does not allow it, the call throws there, before
\* receiver is assigned and before register() is called.
EnsureGlobals(w) ==
    LET w1 == [w EXCEPT !.hasNamespace = TRUE]
        w2 == [w1 EXCEPT !.observers = IF w1.ProgressReceiver THEN @ ELSE @ + 1,
                         !.ProgressReceiver = TRUE]
    IN  IF w1.receiver THEN [w |-> w1, threw |-> FALSE]
        ELSE IF constructible
             THEN [w |-> [w2 EXCEPT !.receiver = TRUE, !.registrations = @ + 1],
                   threw |-> FALSE]
             ELSE [w |-> w2, threw |-> TRUE]

\* What Task.create / Task.createMultiPart do once the request is built:
\* initTask, request.startUpload(), Task.cache[task._id] = task.
StartAndRegister(w, sid, taskId, options, request) ==
    LET st == initTask(taskId, sid, options, w)
        w1 == [st.w EXCEPT
                 !.out = Append(@, [kind |-> "startUpload", id |-> taskId,
                                    uploadId |-> request.uploadId]),
                 !.submitted = Append(@, [uploadId |-> request.uploadId, for |-> taskId])]
    IN  [w1 EXCEPT !.out = Append(@, [kind |-> "cache", id |-> taskId]),
                   !.cache = (taskId :> st.t) @@ @]

\* Task.create
create(w, sid, options) ==
    LET g == EnsureGlobals(w)
        n == g.w.taskCount + 1
        w1 == [g.w EXCEPT !.taskCount = n]
        taskId == TaskId(sid, n)
        built == getBinaryRequest(taskId, options, EngineId(Len(w1.submitted) + 1))
    IN  IF g.threw THEN [w |-> g.w, result |-> "TypeError", id |-> "none"]
        ELSE IF built.threw THEN [w |-> w1, result |-> built.error, id |-> taskId]
        ELSE [w |-> StartAndRegister(w1, sid, taskId, options, built.request),
              result |-> "ok", id |-> taskId]

\* Task.createMultiPart
createMultiPart(w, sid, params, options) ==
    LET g == EnsureGlobals(w)
        n == g.w.taskCount + 1
        w1 == [g.w EXCEPT !.taskCount = n]
        taskId == TaskId(sid, n)
        built == getMultipartRequest(taskId, options, params,
                                     EngineId(Len(w1.submitted) + 1))
    IN  IF g.threw THEN [w |-> g.w, result |-> "TypeError", id |-> "none"]
        ELSE IF built.threw THEN [w |-> w1, result |-> built.error, id |-> taskId]
        ELSE [w |-> StartAndRegister(w1, sid, taskId, options, built.request),
              result |-> "ok", id |-> taskId]

(***************************************************************************)
(* Listeners                                                               *)
(***************************************************************************)
\* The data is logged as the listeners see it; then the listener attached to
\* the Task for this notification runs, if there is one.  (The call it makes
\* here does not throw: a Task exists, so the receiver does, and the listener
\* passes options.)
ObservableNotify(st, entry) ==
    LET s1 == [st EXCEPT !.w.out = Append(@, entry)]
        listening == {r \in st.l : r.kind = entry.kind /\ r.name = entry.name}
    IN  IF listening = {} THEN s1
        ELSE LET r == CHOOSE r \in listening : TRUE
                 s2 == [s1 EXCEPT !.w.nested = @ + 1]
             IN  IF r.do = "cancel" THEN cancelTask(s2)
                 ELSE [s2 EXCEPT !.w = create(s2.w, r.session, r.options).w]

(***************************************************************************)
(* Callback handlers, applied to the Task that Task.fromId returned        *)
(***************************************************************************)
\* Faulty variant: the progress event reports the total as currentBytes
onProgressReceiverProgressSwapped(st, currentBytes, totalBytes) ==
    LET s1 == setTotalUpload(st, totalBytes)
        s2 == setUpload(s1, currentBytes)
        s3 == setStatus(s2, "uploading")
    IN  notify(s3, "progress", [currentBytes |-> totalBytes, totalBytes |-> totalBytes])

\* Faulty variant: no progress event when the count has not moved
onProgressReceiverProgressDebounced(st, currentBytes, totalBytes) ==
    LET s1 == setTotalUpload(st, totalBytes)
        s2 == setUpload(s1, currentBytes)
        s3 == setStatus(s2, "uploading")
    IN  IF st.t.upload = currentBytes
        THEN s3
        ELSE notify(s3, "progress", [currentBytes |-> currentBytes, totalBytes |-> totalBytes])

onProgressReceiverProgress(st, currentBytes, totalBytes) ==
    LET s1 == setTotalUpload(st, totalBytes)
        s2 == setUpload(s1, currentBytes)
        s3 == setStatus(s2, "uploading")
    IN  notify(s3, "progress", [currentBytes |-> currentBytes, totalBytes |-> totalBytes])

\* (zonedOnCancelled is built on line 92 but the delegate of lines 97-112 has no
\* callback that calls it, so no action dispatches to this handler)
onProgressReceiverCancelled(st) ==
    notify(setStatus(st, "cancelled"), "cancelled", [none |-> TRUE])

\* Faulty variant: the user-cancellation branch falls through to the error event
onProgressReceiverErrorFallsThrough(st, error) ==
    LET s1 == setStatus(st, "error")
    IN  IF error.type = "UserCancelledUploadException"
        THEN notify(notify(s1, "cancelled", [none |-> TRUE]), "error", [none |-> TRUE])
        ELSE notify(s1, "error", [none |-> TRUE])

\* Faulty variant: every cause that is not an upload error counts as a cancellation
onProgressReceiverErrorCancelByDefault(st, error) ==
    LET s1 == setStatus(st, "error")
    IN  IF error.type = "UploadError"
        THEN notify(s1, "error", [error |-> JavaException(error), responseCode |-> -1,
                                  response |-> error.serverResponse])
        ELSE notify(s1, "cancelled", [none |-> TRUE])

onProgressReceiverError(st, error) ==
    LET s1 == setStatus(st, "error")
    IN  CASE error.type = "UserCancelledUploadException" ->
               notify(s1, "cancelled", [none |-> TRUE])
          [] error.type = "UploadError" ->
               notify(s1, "error", [error |-> JavaException(error), responseCode |-> -1,
                                    response |-> error.serverResponse])
          [] OTHER ->
               notify(s1, "error", [none |-> TRUE])

\* Faulty variant: only the falsy totals are replaced
NormalizeTotalFalsyOnly(totalUpload) ==
    IF Falsy(totalUpload) THEN Num(1) ELSE totalUpload

\* lines 59-62
NormalizeTotal(totalUpload) ==
    IF Falsy(totalUpload) \/ ~IsFinite(totalUpload) \/ LeqZero(totalUpload)
    THEN Num(1)
    ELSE totalUpload

\* response && typeof response.getCode === 'function' ? response.getCode() : -1
ResponseCode(response) == IF response.hasGetCode THEN response.code ELSE -1

\* Faulty variant: the status is written after the events
onProgressReceiverCompletedStatusLast(st, nativeTotal, response) ==
    LET totalUpload == NormalizeTotal(nativeTotal)
        s1 == setUpload(st, totalUpload)
        s2 == setTotalUpload(s1, totalUpload)
        s4 == notify(s2, "progress", [currentBytes |-> totalUpload, totalBytes |-> totalUpload])
        s5 == notify(s4, "responded", [data |-> response.body,
                                       responseCode |-> ResponseCode(response)])
        s6 == notify(s5, "complete", [responseCode |-> ResponseCode(response),
                                      response |-> response])
    IN  setStatus(s6, "complete")

onProgressReceiverCompleted(st, nativeTotal, response) ==
    LET totalUpload == NormalizeTotal(nativeTotal)
        s1 == setUpload(st, totalUpload)
        s2 == setTotalUpload(s1, totalUpload)
        s3 == setStatus(s2, "complete")
        s4 == notify(s3, "progress", [currentBytes |-> totalUpload, totalBytes |-> totalUpload])
        s5 == notify(s4, "responded", [data |-> response.body,
                                       responseCode |-> ResponseCode(response)])
    IN  notify(s5, "complete", [responseCode |-> ResponseCode(response),
                                response |-> response])

(***************************************************************************)
(* Initial state: the module has been loaded, nothing has been called.     *)
(* Whether the runtime lets line 122 apply new to the observer object is   *)
(* not decided by this file: both runtimes are initial states.             *)
(***************************************************************************)
Init ==
    /\ taskCount = 0
    /\ cache = <<>>
    /\ ProgressReceiver = FALSE
    /\ receiver = FALSE
    /\ hasNamespace = FALSE
    /\ observers = 0
    /\ registrations = 0
    /\ submitted = <<>>
    /\ stopRequests = <<>>
    /\ constructible \in BOOLEAN
    /\ phase = [id \in AllTaskIds |-> "active"]
    /\ lastUploaded = [id \in AllTaskIds |-> Num(0)]
    /\ budget = MaxCalls
    /\ written = <<>>
    /\ calls = 0
    /\ lastCall = [op |-> "none"]
    /\ emitted = <<>>
    /\ terminalEvents = [id \in AllTaskIds |-> 0]
    /\ lastProgress = [id \in AllTaskIds |-> Undefined]

(***************************************************************************)
(* What is observed of a call's output                                     *)
(***************************************************************************)
TerminalNames == {"cancelled", "error", "complete"}
IsEvent(e, names) == e.kind = "event" /\ e.name \in names
EventIndexes(out, names) == {i \in 1..Len(out) : IsEvent(out[i], names)}
CountEvents(out, names) == Cardinality(EventIndexes(out, names))
\* currentBytes of the last progress event in out, or prev when there is none
LastCurrentBytes(out, prev) ==
    LET ps == EventIndexes(out, {"progress"})
    IN  IF ps = {} THEN prev
        ELSE out[CHOOSE i \in ps : \A j \in ps : j <= i].data.currentBytes

(***************************************************************************)
(* Calls of the application                                                *)
(***************************************************************************)
\* Calls made so far
CallsMade == calls

\* A call that left the module as w, counted with the calls its listeners
\* made from inside it
Counted(w) ==
    /\ calls + 1 + w.nested <= budget
    /\ calls' = calls + 1 + w.nested

\* The module's state after a call that left it as w and logged w.out
Commit(w) ==
    /\ taskCount' = w.taskCount
    /\ cache' = w.cache
    /\ ProgressReceiver' = w.ProgressReceiver
    /\ receiver' = w.receiver
    /\ hasNamespace' = w.hasNamespace
    /\ observers' = w.observers
    /\ registrations' = w.registrations
    /\ submitted' = w.submitted
    /\ stopRequests' = w.stopRequests
    /\ emitted' = w.out
    /\ written' = w.writes

\* A call that threw before it wrote or logged anything
Untouched ==
    /\ emitted' = <<>>
    /\ written' = <<>>
    /\ UNCHANGED <<taskCount, cache, ProgressReceiver, receiver, hasNamespace, observers,
                   registrations, submitted, stopRequests>>

\* The events a call on the Task under taskId emitted, counted
Monitor(taskId, out) ==
    /\ terminalEvents' = [terminalEvents EXCEPT
                            ![taskId] = @ + CountEvents(out, TerminalNames)]
    /\ lastProgress' = [lastProgress EXCEPT ![taskId] = LastCurrentBytes(out, @)]

\* session(sid).uploadFile(file, options): Task.create
uploadFile(sid, options) ==
    /\ CallsMade < budget
    /\ calls' = calls + 1
    /\ LET r == create(World, sid, options)
       IN  /\ Commit(r.w)
           /\ lastCall' = [op |-> "uploadFile", id |-> r.id, session |-> sid,
                           description |-> options.description, result |-> r.result]
    /\ UNCHANGED <<constructible, budget, phase, lastUploaded, terminalEvents, lastProgress>>

\* Some part of the list has no name
NamelessPart(params) == \E i \in 1..Len(params) : params[i].name = "undefined"
\* Every part before the first one without a name is a plain field or a file
\* field as multipartUpload expects them
ValidBeforeNameless(params) ==
    \A i \in 1..Len(params) :
        (\A j \in 1..i : params[j].name # "undefined") => PartOutcome(params[i]) = "ok"

\* session(sid).multipartUpload(params, options): Task.createMultiPart
multipartUpload(sid, options, params) ==
    /\ CallsMade < budget
    /\ calls' = calls + 1
    /\ LET r == createMultiPart(World, sid, params, options)
       IN  /\ Commit(r.w)
           /\ lastCall' = [op |-> "multipartUpload", id |-> r.id, session |-> sid,
                           description |-> options.description,
                           options |-> options.given,
                           nameless |-> NamelessPart(params),
                           validBefore |-> ValidBeforeNameless(params),
                           result |-> r.result]
    /\ UNCHANGED <<constructible, budget, phase, lastUploaded, terminalEvents, lastProgress>>

\* A method of a Task the application holds (one a factory returned), with
\* the listener the application has attached to it: st is the method applied.
OnTask(op, taskId, input, st) ==
    /\ Counted(st.w)
    /\ Commit([st.w EXCEPT !.cache[taskId] = st.t])
    /\ lastCall' = [op |-> op, id |-> taskId, input |-> input, result |-> "ok"]
    /\ Monitor(taskId, st.w.out)
    /\ UNCHANGED <<constructible, budget, phase, lastUploaded>>

\* task.cancel()
cancel(taskId) ==
    /\ CallsMade < budget
    /\ taskId \in DOMAIN cache
    /\ OnTask("cancel", taskId, [none |-> TRUE],
              cancelTask(Start(cache[taskId], World, NoListener)))

\* task.setStatus(v), task.setUpload(v), task.setTotalUpload(v) or
\* task.setDescription(v), called by the application: the setters are public
set(taskId, write, listener) ==
    /\ CallsMade < budget
    /\ taskId \in DOMAIN cache
    /\ LET st == Start(cache[taskId], World, listener)
       IN  OnTask("set", taskId, write,
                  CASE write.name = "status" -> setStatus(st, write.value)
                    [] write.name = "upload" -> setUpload(st, write.value)
                    [] write.name = "totalUpload" -> setTotalUpload(st, write.value)
                    [] OTHER -> setDescription(st, write.value))

(***************************************************************************)
(* The upload service and the RequestObserverDelegate (lines 97-112)       *)
(***************************************************************************)
\* Faulty variant: the handler's writes land on every registered Task
DispatchToAll(op, uploadId, input, st) ==
    /\ IF uploadId \in DOMAIN cache
       THEN /\ Counted(st.w)
            /\ Commit([st.w EXCEPT !.cache = [id \in DOMAIN @ |-> [st.t EXCEPT !.id = id]]])
            /\ lastCall' = [op |-> op, id |-> uploadId, input |-> input, result |-> "ok"]
            /\ Monitor(uploadId, st.w.out)
       ELSE /\ calls' = calls + 1
            /\ lastCall' = [op |-> op, id |-> uploadId, result |-> "TypeError"]
            /\ Untouched
            /\ UNCHANGED <<terminalEvents, lastProgress>>
    /\ UNCHANGED <<constructible, budget>>

\* Task.fromId(uploadId) and the handler applied to it.  With no Task under
\* the id, fromId returns undefined and the handler's first task.setX call
\* throws a TypeError before anything is written or emitted.
Dispatch(op, uploadId, input, st) ==
    /\ IF uploadId \in DOMAIN cache
       THEN /\ Counted(st.w)
            /\ Commit([st.w EXCEPT !.cache[uploadId] = st.t])
            /\ lastCall' = [op |-> op, id |-> uploadId, input |-> input, result |-> "ok"]
            /\ Monitor(uploadId, st.w.out)
       ELSE /\ calls' = calls + 1
            /\ lastCall' = [op |-> op, id |-> uploadId, result |-> "TypeError"]
            /\ Untouched
            /\ UNCHANGED <<terminalEvents, lastProgress>>
    /\ UNCHANGED <<constructible, budget>>

\* The Task a handler works on, with its listener (any value when there is no
\* Task: it is not used).
TaskOf(uploadId, listener) ==
    Start(IF uploadId \in DOMAIN cache THEN cache[uploadId] ELSE NewTask, World, listener)

\* Where the upload service stands with the uploads it reports under a Task's
\* id.  (A callback for an id without a Task ends in the TypeError whatever
\* came before it: for those ids nothing is kept.)
Reported(uploadId, uploadedBytes) ==
    lastUploaded' = IF uploadId \in DOMAIN cache
                    THEN [lastUploaded EXCEPT ![uploadId] = uploadedBytes]
                    ELSE lastUploaded
Moved(uploadId, toPhase) ==
    phase' = IF uploadId \in DOMAIN cache
             THEN [phase EXCEPT ![uploadId] = toPhase]
             ELSE phase

\* The upload service delivers a callback for uploadId to the delegate of the
\* registered observer.  The observer is a global one: the delegate runs for
\* whatever upload id the callback carries.
Delivers(uploadId) ==
    /\ receiver
    /\ CallsMade < budget

\* delegate.onProgress -> zonedOnProgress
onProgress(uploadId, uploadedBytes, totalBytes, listener) ==
    /\ Delivers(uploadId)
    /\ Dispatch("onProgress", uploadId,
                [uploadedBytes |-> uploadedBytes, totalBytes |-> totalBytes],
                onProgressReceiverProgress(TaskOf(uploadId, listener),
                                           uploadedBytes, totalBytes))
    /\ Reported(uploadId, uploadedBytes)
    /\ UNCHANGED phase

\* delegate.onError -> zonedOnError
onError(uploadId, error, listener) ==
    /\ Delivers(uploadId)
    /\ Dispatch("onError", uploadId, [error |-> error],
                onProgressReceiverError(TaskOf(uploadId, listener), error))
    /\ Moved(uploadId, "ended")
    /\ UNCHANGED lastUploaded

\* delegate.onSuccess -> zonedOnCompleted
onSuccess(uploadId, totalBytes, response, listener) ==
    /\ Delivers(uploadId)
    /\ Dispatch("onSuccess", uploadId, [totalBytes |-> totalBytes, response |-> response],
                onProgressReceiverCompleted(TaskOf(uploadId, listener), totalBytes, response))
    /\ Moved(uploadId, "ended")
    /\ UNCHANGED lastUploaded

\* delegate.onCompleted -> zonedOnProgress (line 108)
onCompleted(uploadId, uploadedBytes, totalBytes, listener) ==
    /\ Delivers(uploadId)
    /\ Dispatch("onCompleted", uploadId,
                [uploadedBytes |-> uploadedBytes, totalBytes |-> totalBytes],
                onProgressReceiverProgress(TaskOf(uploadId, listener),
                                           uploadedBytes, totalBytes))
    /\ Reported(uploadId, uploadedBytes)
    /\ Moved(uploadId, "closed")

\* Everything the application and the upload service can do, in any order
Next ==
    \/ \E sid \in SessionIds, o \in Options : uploadFile(sid, o)
    \/ \E sid \in SessionIds, o \in Options :
          \E params \in IF o.given THEN ParamLists ELSE {<<>>} :
             multipartUpload(sid, o, params)
    \/ \E id \in TaskIds : cancel(id)
    \/ \E id \in TaskIds, write \in AppWrites, l \in Listeners : set(id, write, l)
    \/ \E id \in UploadIds, u \in UploadedValues, t \in ProgressTotals, l \in Listeners :
          onProgress(id, u, t, l)
    \/ \E id \in UploadIds, e \in Errors, l \in Listeners : onError(id, e, l)
    \/ \E id \in UploadIds, t \in SuccessTotals, r \in Responses, l \in Listeners :
          onSuccess(id, t, r, l)
    \/ \E id \in UploadIds, u \in UploadedValues, t \in ProgressTotals, l \in Listeners :
          onCompleted(id, u, t, l)

Spec == Init /\ [][Next]_vars

\* The upload service keeps to its protocol for uploadId: onProgress*, then
\* onSuccess or onError, then onCompleted, with uploadedBytes reported in
\* non-decreasing order.
InOrder(uploadId, inPhase, uploadedBytes) ==
    uploadId \in DOMAIN cache
       => /\ phase[uploadId] = inPhase
          /\ Leq(lastUploaded[uploadId], uploadedBytes)

\* The same program where the upload service keeps to its callback protocol
\* and the application leaves the Task's fields to the handlers (it calls the
\* factories and cancel, and its listeners may do the same).
NextInOrder ==
    \/ \E sid \in SessionIds, o \in Options : uploadFile(sid, o)
    \/ \E sid \in SessionIds, o \in Options :
          \E params \in IF o.given THEN ParamLists ELSE {<<>>} :
             multipartUpload(sid, o, params)
    \/ \E id \in TaskIds : cancel(id)
    \/ \E id \in UploadIds, u \in UploadedValues, t \in ProgressTotals, l \in Listeners :
          InOrder(id, "active", u) /\ onProgress(id, u, t, l)
    \/ \E id \in UploadIds, e \in Errors, l \in Listeners :
          InOrder(id, "active", Num(MaxBytes)) /\ onError(id, e, l)
    \/ \E id \in UploadIds, t \in SuccessTotals, r \in Responses, l \in Listeners :
          InOrder(id, "active", Num(MaxBytes)) /\ onSuccess(id, t, r, l)
    \/ \E id \in UploadIds, u \in UploadedValues, t \in ProgressTotals, l \in Listeners :
          InOrder(id, "ended", u) /\ onCompleted(id, u, t, l)

SpecInOrder == Init /\ [][NextInOrder]_vars

\* The same again with an upload service that never reports more uploaded
\* bytes than the total (the success callback reports the total alone).
NextInRange ==
    \/ \E sid \in SessionIds, o \in Options : uploadFile(sid, o)
    \/ \E sid \in SessionIds, o \in Options :
          \E params \in IF o.given THEN ParamLists ELSE {<<>>} :
             multipartUpload(sid, o, params)
    \/ \E id \in TaskIds : cancel(id)
    \/ \E id \in UploadIds, u \in UploadedValues, t \in ProgressTotals, l \in Listeners :
          Leq(u, t) /\ InOrder(id, "active", u) /\ onProgress(id, u, t, l)
    \/ \E id \in UploadIds, e \in Errors, l \in Listeners :
          InOrder(id, "active", Num(MaxBytes)) /\ onError(id, e, l)
    \/ \E id \in UploadIds, t \in SuccessTotals, r \in Responses, l \in Listeners :
          InOrder(id, "active", Num(MaxBytes)) /\ onSuccess(id, t, r, l)
    \/ \E id \in UploadIds, u \in UploadedValues, t \in ProgressTotals, l \in Listeners :
          Leq(u, t) /\ InOrder(id, "ended", u) /\ onCompleted(id, u, t, l)

SpecInRange == Init /\ [][NextInRange]_vars


\* Several Tasks in flight: the application starts uploads and cancels them,
\* and the upload service makes the callbacks of the Tasks in any order, each
\* Task's and one Task's with another's, for more calls than MaxCalls (and,
\* to make room for them, fewer different inputs: callbacks for registered
\* ids, non-zero byte counts of MaxBytes, finite success totals, listeners
\* on the progress and success callbacks).
InitInterleaved ==
    /\ taskCount = 0
    /\ cache = <<>>
    /\ ProgressReceiver = FALSE
    /\ receiver = FALSE
    /\ hasNamespace = FALSE
    /\ observers = 0
    /\ registrations = 0
    /\ submitted = <<>>
    /\ stopRequests = <<>>
    /\ constructible \in BOOLEAN
    /\ phase = [id \in AllTaskIds |-> "active"]
    /\ lastUploaded = [id \in AllTaskIds |-> Num(0)]
    /\ budget = MaxInterleaved
    /\ written = <<>>
    /\ calls = 0
    /\ lastCall = [op |-> "none"]
    /\ emitted = <<>>
    /\ terminalEvents = [id \in AllTaskIds |-> 0]
    /\ lastProgress = [id \in AllTaskIds |-> Undefined]

NextInterleaved ==
    \/ \E sid \in SessionIds, o \in Options : o.given /\ uploadFile(sid, o)
    \/ \E id \in DOMAIN cache : cancel(id)
    \/ \E id \in DOMAIN cache, u \in UploadedValues, l \in Listeners :
          u # Num(0) /\ onProgress(id, u, Num(MaxBytes), l)
    \/ \E id \in DOMAIN cache, e \in Errors : onError(id, e, NoListener)
    \/ \E id \in DOMAIN cache, t \in SuccessTotals, r \in Responses, l \in Listeners :
          r.hasGetCode /\ IsFinite(t) /\ onSuccess(id, t, r, l)
    \/ \E id \in DOMAIN cache, u \in UploadedValues :
          u # Num(0) /\ onCompleted(id, u, Num(MaxBytes), NoListener)

SpecInterleaved == InitInterleaved /\ [][NextInterleaved]_vars
(***************************************************************************)
(* Properties                                                              *)
(***************************************************************************)
\* The last call was the callback op, dispatched to a registered Task
Handled(op) == lastCall.op = op /\ lastCall.result = "ok"
\* The events (not the property-change notifications) of the last call
Events == SelectSeq(emitted, LAMBDA e : e.kind = "event")

StatusEdges ==
    {<<"pending", "uploading">>, <<"uploading", "uploading">>}
        \cup ({"pending", "uploading"} \X {"complete", "error", "cancelled"})

\* C1: a task's status changes only along pending->uploading,
\* uploading->uploading and {pending,uploading}->{complete,error,cancelled};
\* in particular never from complete to uploading.
C1_StatusEdges ==
    [][\A id \in DOMAIN cache :
          cache'[id].status # cache[id].status
             => <<cache[id].status, cache'[id].status>> \in StatusEdges]_vars

\* C2: the upload id the upload service carries for a submitted request is the
\* id of the Task the call returned, so its callbacks resolve to that Task.
C2_CallbackIdIsTaskId ==
    \A i \in 1..Len(submitted) :
        /\ submitted[i].uploadId = submitted[i].for
        /\ submitted[i].uploadId \in DOMAIN cache

\* C3: within a factory call the Task is written to the Registry before the
\* request is submitted (startUpload).
C3_RegisteredBeforeSubmitted ==
    \A i \in 1..Len(emitted) :
        emitted[i].kind = "startUpload"
           => \E j \in 1..(i - 1) : emitted[j].kind = "cache" /\ emitted[j].id = emitted[i].id

\* C4: an error callback reporting a user-cancellation leaves the task
\* cancelled, with exactly one cancelled event and no error event.
C4_UserCancelled ==
    (Handled("onError") /\ lastCall.input.error.type = "UserCancelledUploadException")
       => /\ cache[lastCall.id].status = "cancelled"
          /\ CountEvents(emitted, {"cancelled"}) = 1
          /\ CountEvents(emitted, {"error"}) = 0

\* C5: over a task's lifetime, with the callbacks in the upload service's
\* order (onProgress*, then onSuccess or onError, then onCompleted), exactly
\* one terminal event is emitted: none before the terminal callback, one
\* from it on.
C5_OneTerminalEvent ==
    \A id \in DOMAIN cache :
        terminalEvents[id] = IF phase[id] = "active" THEN 0 ELSE 1

C5_Witness ==
    \E id \in DOMAIN cache : phase[id] = "closed" /\ terminalEvents[id] = 1

\* The total the success callback pins the counts to: T when T is a positive
\* finite number, 1 otherwise.
Pinned(T) == IF T.k = "fin" /\ T.v > 0 THEN T ELSE Num(1)

\* C6: on success, whatever total the upload service reports, the final
\* progress event has currentBytes = totalBytes >= 1, and upload and
\* totalUpload both hold that value: T when positive and finite, else 1.
C6_SuccessCounts ==
    Handled("onSuccess")
       => LET v == Pinned(lastCall.input.totalBytes)
              ps == EventIndexes(emitted, {"progress"})
          IN  /\ Cardinality(ps) = 1
              /\ \A i \in ps : /\ emitted[i].data.currentBytes = v
                               /\ emitted[i].data.totalBytes = v
              /\ v.k = "fin" /\ v.v >= 1
              /\ cache[lastCall.id].upload = v
              /\ cache[lastCall.id].totalUpload = v

C6_Witness ==
    /\ Handled("onSuccess")
    /\ lastCall.input.totalBytes = NegInf
    /\ cache[lastCall.id].upload = Num(1)
    /\ cache[lastCall.id].totalUpload = Num(1)

\* C7: a success callback emits exactly progress, responded, complete, in that
\* order: progress with the pinned counts, responded with the body and the
\* status code (-1 when there is none), complete with the code and the raw
\* response; the status is complete from the first of them on.
C7_SuccessEvents ==
    Handled("onSuccess")
       => LET r == lastCall.input.response
              code == IF r.hasGetCode THEN r.code ELSE -1
              v == Pinned(lastCall.input.totalBytes)
          IN  /\ Len(Events) = 3
              /\ Events[1].name = "progress"
              /\ Events[1].data = [currentBytes |-> v, totalBytes |-> v]
              /\ Events[2].name = "responded"
              /\ Events[2].data = [data |-> r.body, responseCode |-> code]
              /\ Events[3].name = "complete"
              /\ Events[3].data = [responseCode |-> code, response |-> r]
              /\ \A i \in 1..3 : Events[i].seen.status = "complete"

C7_Witness ==
    /\ Handled("onSuccess")
    /\ ~lastCall.input.response.hasGetCode
    /\ Len(Events) = 3
    /\ Events[2].data.responseCode = -1

\* This step dispatched a callback to the Task under id, which had emitted no
\* terminal event before it and had emitted a progress event, and the step
\* emitted a progress event
NextProgress(id, ops) ==
    /\ calls' # calls
    /\ lastCall'.id = id /\ lastCall'.op \in ops /\ lastCall'.result = "ok"
    /\ terminalEvents[id] = 0
    /\ lastProgress[id] # Undefined
    /\ EventIndexes(emitted', {"progress"}) # {}

\* C8 as claimed: with uploadedBytes reported in non-decreasing order, the
\* currentBytes of a task's progress events, the final one emitted on success
\* included, never decreases up to the terminal event.
C8_ProgressNeverDecreases ==
    [][\A id \in DOMAIN cache :
          NextProgress(id, {"onProgress", "onSuccess"})
             => Leq(lastProgress[id], lastProgress'[id])]_vars

\* C8 amended: with uploadedBytes reported in non-decreasing order, and the
\* pinned total of the success callback not below the last uploadedBytes
\* reported, the currentBytes of a task's progress events, the final one
\* emitted on success included, never decreases up to the terminal event.
C8_ProgressOrder ==
    [][\A id \in DOMAIN cache :
          ( /\ NextProgress(id, {"onProgress", "onSuccess"})
            /\ lastCall'.op = "onSuccess"
                  => Leq(lastUploaded[id], Pinned(lastCall'.input.totalBytes)) )
             => Leq(lastProgress[id], lastProgress'[id])]_vars

C8_Witness ==
    /\ Handled("onSuccess")
    /\ lastUploaded[lastCall.id] = Num(1)
    /\ lastProgress[lastCall.id] = Num(2)

\* C9: a multipartUpload call with a part that has no name, wherever it sits
\* in the list (the parts before it being well-formed), fails with the
\* validation error, adds no Task to the Registry and submits no request.
C9_ValidationBeforeSubmission ==
    [][(calls' # calls /\ lastCall'.op = "multipartUpload"
          /\ lastCall'.options /\ lastCall'.nameless /\ lastCall'.validBefore)
         => /\ lastCall'.result = "Error"
            /\ cache' = cache
            /\ submitted' = submitted
            /\ emitted' = <<>>]_vars

\* C10: all Tasks created have pairwise distinct ids, whatever sessions they
\* were created on and whatever calls failed validation in between, so no
\* write to the Registry replaces a Task.
C10_DistinctTaskIds ==
    /\ \A i, j \in 1..Len(submitted) : i # j => submitted[i].for # submitted[j].for
    /\ Cardinality(DOMAIN cache) = Len(submitted)
    /\ \A id \in DOMAIN cache : cache[id].id = id

C10_Witness ==
    /\ Len(submitted) = 2
    /\ taskCount = 3
    /\ cache[submitted[1].for].session = cache[submitted[2].for].session

CallbackOps == {"onProgress", "onError", "onSuccess", "onCompleted"}

\* C11: an error callback reporting an upload error leaves the task in status
\* error and emits one error event that carries the error (as the cause of
\* the exception the event holds), the raw server response, and the response
\* code of that server response (-1 only when the response has no code to
\* give).
C11_UploadErrorDetails ==
    (Handled("onError") /\ lastCall.input.error.type = "UploadError")
       => LET r == lastCall.input.error.serverResponse
          IN  /\ cache[lastCall.id].status = "error"
              /\ Len(Events) = 1
              /\ Events[1].name = "error"
              /\ Events[1].data.error.cause = lastCall.input.error
              /\ Events[1].data.response = r
              /\ Events[1].data.responseCode = IF r.hasGetCode THEN r.code ELSE -1

\* C12: an error callback whose cause is neither a user-cancellation nor an
\* upload error leaves the task in status error and emits exactly one event,
\* an error event without response details; it emits no cancelled event.
C12_OtherError ==
    (Handled("onError") /\ lastCall.input.error.type = "Throwable")
       => /\ cache[lastCall.id].status = "error"
          /\ Len(Events) = 1
          /\ Events[1].name = "error"
          /\ Events[1].data = [none |-> TRUE]
          /\ Events[1].seen.status = "error"
          /\ CountEvents(emitted, {"cancelled"}) = 0

C12_Witness ==
    /\ Handled("onError")
    /\ lastCall.input.error.type = "Throwable"
    /\ cache[lastCall.id].status = "error"
    /\ CountEvents(emitted, {"error"}) = 1

\* C13: Task.cancel() asks the upload service to stop the upload with this
\* task's id and does nothing else: the task's fields and the Registry are
\* unchanged and no property-change notification or event is emitted (also
\* when a listener calls it from inside a callback: the stop request is then
\* for the Task the callback is for).  A task's status changes only in a
\* step that dispatches a callback for its id.
C13_CancelOnlyAborts ==
    [][ /\ (calls' # calls /\ lastCall'.op = "cancel")
           => /\ lastCall'.id \in DOMAIN cache
              /\ stopRequests' = Append(stopRequests, lastCall'.id)
              /\ cache' = cache
              /\ emitted' = << [kind |-> "stopUpload", id |-> lastCall'.id] >>
              /\ terminalEvents' = terminalEvents
        /\ \A i \in (Len(stopRequests) + 1)..Len(stopRequests') :
              /\ stopRequests'[i] = lastCall'.id
              /\ lastCall'.id \in DOMAIN cache
        /\ \A id \in DOMAIN cache :
              cache'[id].status # cache[id].status
                 => /\ lastCall'.op \in CallbackOps
                    /\ lastCall'.id = id ]_vars

C13_Witness ==
    /\ Handled("cancel")
    /\ cache[lastCall.id].status = "uploading"
    /\ stopRequests = << lastCall.id >>
    /\ emitted = << [kind |-> "stopUpload", id |-> lastCall.id] >>

\* C14: a callback whose upload id has no Task in the Registry is ignored: it
\* raises no error, and it emits nothing.
C14_UnknownIdIgnored ==
    (lastCall.op \in CallbackOps /\ lastCall.id \notin DOMAIN cache)
       => /\ lastCall.result = "ok"
          /\ emitted = <<>>

FactoryOps == {"uploadFile", "multipartUpload"}

\* C15: the Task a factory call returns has, before any callback, status
\* pending, upload 0, totalUpload 1, the description of the options, and the id
\* session.id + "{n}" with n the creation counter after its increment (the
\* first creation, on session "s1", yields "s1{1}"); each of these fields is
\* written before the request is submitted.
C15_FreshTask ==
    (lastCall.op \in FactoryOps /\ lastCall.result = "ok")
       => LET t == cache[lastCall.id]
              starts == {i \in 1..Len(emitted) : emitted[i].kind = "startUpload"}
          IN  /\ lastCall.id = lastCall.session \o "{" \o ToString(taskCount) \o "}"
              /\ (taskCount = 1 /\ lastCall.session = "s1") => lastCall.id = "s1{1}"
              /\ t.id = lastCall.id
              /\ t.session = lastCall.session
              /\ t.status = "pending"
              /\ t.upload = Num(0)
              /\ t.totalUpload = Num(1)
              /\ t.description = lastCall.description
              /\ Cardinality(starts) = 1
              /\ \A i \in starts :
                    /\ emitted[i].id = lastCall.id
                    /\ \A name \in {"status", "upload", "totalUpload", "description"} :
                          \E j \in 1..(i - 1) :
                             /\ emitted[j].kind = "prop"
                             /\ emitted[j].name = name
                             /\ emitted[j].value = t[name]
                    /\ \A j \in (i + 1)..Len(emitted) : emitted[j].kind # "prop"

C15_Witness ==
    /\ lastCall.op = "multipartUpload" /\ lastCall.result = "ok"
    /\ taskCount = 1
    /\ lastCall.id = "s1{1}"
    /\ cache["s1{1}"].status = "pending"
    /\ cache["s1{1}"].totalUpload = Num(1)

\* C16: a progress callback for a registered task that has had no terminal
\* callback (status pending or uploading) sets totalUpload and upload to the
\* reported values and status to uploading, and emits exactly one progress
\* event, with exactly those counts.  No other call before the terminal
\* callback emits a progress event, so up to the terminal callback there are
\* as many progress events as progress callbacks.
C16_ProgressPerCallback ==
    /\ Handled("onProgress")
          => LET t == cache[lastCall.id]
                 ps == EventIndexes(emitted, {"progress"})
             IN  /\ t.totalUpload = lastCall.input.totalBytes
                 /\ t.upload = lastCall.input.uploadedBytes
                 /\ t.status = "uploading"
                 /\ Len(Events) = 1
                 /\ Cardinality(ps) = 1
                 /\ \A i \in ps :
                       emitted[i].data = [currentBytes |-> lastCall.input.uploadedBytes,
                                          totalBytes |-> lastCall.input.totalBytes]
    /\ lastCall.op \in FactoryOps \cup {"cancel", "set"} => Len(Events) = 0

C16_Witness ==
    /\ Handled("onProgress")
    /\ calls = MaxCalls
    /\ lastUploaded[lastCall.id] = Num(1)
    /\ cache[lastCall.id].upload = Num(1)
    /\ cache[lastCall.id].totalUpload = Num(MaxBytes)
    /\ CountEvents(emitted, {"progress"}) = 1

\* C17: after any number of factory calls, failed ones included, the observer
\* has been built exactly once and registered exactly once, so a callback is
\* handled once and emits no event twice.
C17_ReceiverOnce ==
    /\ receiver = (calls > 0)
    /\ observers = IF calls > 0 THEN 1 ELSE 0
    /\ registrations = IF calls > 0 THEN 1 ELSE 0
    /\ lastCall.op \in CallbackOps
          => \A name \in {"progress", "responded", "complete", "error", "cancelled"} :
                CountEvents(emitted, {name}) <= 1

\* The entries of the last call made by notify(): property-change
\* notifications and events
Notifications == {i \in 1..Len(emitted) : emitted[i].kind \in {"prop", "event"}}

\* The property-change notifications of the last call, in order
PropIndexes == {i \in 1..Len(emitted) : emitted[i].kind = "prop"}
NthProp(k) == CHOOSE i \in PropIndexes : Cardinality({j \in PropIndexes : j <= i}) = k

\* Every write of a Task field is followed at once by one property-change
\* notification with the field's name and the value written, seen with the
\* field already holding it; there is no other property-change notification.
WritesNotified ==
    /\ Len(written) = Cardinality(PropIndexes)
    /\ \A k \in 1..Len(written) :
          LET e == emitted[NthProp(k)]
          IN  /\ written[k].at = NthProp(k) - 1
              /\ e.id = written[k].id
              /\ e.name = written[k].name
              /\ e.name \in {"upload", "totalUpload", "status", "description"}
              /\ e.value = written[k].value
              /\ e.seen[e.name] = e.value

\* In a callback every property-change notification of the callback's Task
\* precedes every event, and each event is seen with the fields the callback
\* leaves behind.
PropsBeforeEvents ==
    (lastCall.op \in CallbackOps /\ lastCall.result = "ok")
       => \A i \in Notifications :
             emitted[i].kind = "event"
                => /\ emitted[i].id = lastCall.id
                   /\ \A j \in Notifications :
                         (emitted[j].kind = "prop" /\ emitted[j].id = lastCall.id)
                            => j < i
                   /\ emitted[i].seen = Snapshot(cache[lastCall.id])

\* The fields an observer reads while it handles the event e match e: the
\* counts of a progress event are the task's upload and totalUpload, and the
\* status at a cancelled, error or complete event is that state.
MatchesFields(e) ==
    /\ e.name = "progress" => /\ e.data.currentBytes = e.seen.upload
                              /\ e.data.totalBytes = e.seen.totalUpload
    /\ e.name \in TerminalNames => e.seen.status = e.name

\* C18: every write of a task field is followed by one property-change
\* notification with the field's name and the new value (the field written
\* first); within one callback the property-change notifications of the
\* callback's Task all precede its semantic events, and an observer handling
\* a semantic event (progress, cancelled, error, complete) reads field values
\* that match the event.
C18_WriteThenNotify ==
    /\ WritesNotified
    /\ PropsBeforeEvents
    /\ \A i \in Notifications : emitted[i].kind = "event" => MatchesFields(emitted[i])

\* C19: with an upload service that reports uploadedBytes <= totalBytes in
\* every callback, at every notification of a callback (property-change
\* notification or event) the task's upload is at most its totalUpload, also
\* when the callback is a success callback on a task that has had no progress
\* callback.
C19_UploadWithinTotal ==
    lastCall.op \in CallbackOps /\ lastCall.result = "ok"
       => \A i \in Notifications : Leq(emitted[i].seen.upload, emitted[i].seen.totalUpload)

\* C20: with several tasks registered and their callbacks interleaved in any
\* order, a step that dispatches a callback for id A changes no field of any
\* other Task and emits events only on the Task under A; the Registry's key
\* set is as it was (it grows, by exactly the Tasks created, when a listener
\* starts an upload from inside the callback, and what the step then
\* notifies is about A or about that new Task); no step of any kind removes
\* a Registry entry, and none writes the Registry under an id that is
\* already there.
C20_OtherTasksUntouched ==
    [][ /\ (calls' # calls /\ lastCall'.op \in CallbackOps)
           => /\ calls' = calls + 1 => DOMAIN cache' = DOMAIN cache
              /\ \A id \in DOMAIN cache : id # lastCall'.id => cache'[id] = cache[id]
              /\ \A i \in 1..Len(emitted') :
                    /\ emitted'[i].id = lastCall'.id \/ emitted'[i].id \notin DOMAIN cache
                    /\ emitted'[i].kind = "event" => emitted'[i].id = lastCall'.id
              /\ \A id \in DOMAIN cache :
                    id # lastCall'.id => /\ terminalEvents'[id] = terminalEvents[id]
                                         /\ lastProgress'[id] = lastProgress[id]
        /\ DOMAIN cache \subseteq DOMAIN cache'
        /\ calls' # calls
              => /\ DOMAIN cache' = DOMAIN cache
                      \cup {emitted'[i].id : i \in {j \in 1..Len(emitted') :
                                                      emitted'[j].kind = "cache"}}
                 /\ \A i \in 1..Len(emitted') :
                       emitted'[i].kind = "cache" => emitted'[i].id \notin DOMAIN cache
        /\ \A id \in DOMAIN cache :
              /\ cache'[id].id = id
              /\ cache'[id].session = cache[id].session ]_vars

\* Two Tasks that have both had callbacks: A a progress callback and then,
\* as the last call, the success callback; B a progress callback, whose
\* values it still has.
C20_Witness ==
    \E a, b \in DOMAIN cache :
        /\ a # b
        /\ Handled("onSuccess")
        /\ lastCall.id = a
        /\ lastUploaded[a] = Num(1)
        /\ cache[a].status = "complete"
        /\ cache[a].upload = Num(MaxBytes)
        /\ cache[b].status = "uploading"
        /\ cache[b].upload = Num(MaxBytes)
        /\ lastProgress[b] = Num(MaxBytes)
        /\ terminalEvents[b] = 0

====
